---- MODULE Spec2Model ----
(***************************************************************************)
(* State-machine model of Source/MayaLiveLinkUI.py: the script plug-in     *)
(* that shows the Maya Live Link window and forwards its controls to the   *)
(* commands of the native Live Link plug-in.                               *)
(*                                                                         *)
(* The host (Maya) and the native plug-in are the environment.  What the   *)
(* model assumes of them is written where it is used:                      *)
(*   - a cmds.LiveLink* call raises when the native plug-in is not loaded; *)
(*   - cmds.deleteUI and an edit of a control raise when the control does  *)
(*     not exist;                                                          *)
(*   - the subject queries return None when there is no subject (the case  *)
(*     PopulateSubjects tests for), the endpoint queries return a string   *)
(*     and a list;                                                         *)
(*   - the native plug-in keeps one subject per DAG path and an            *)
(*     endpoint list without duplicates;                                   *)
(*   - the endpoints dialog is modal: nothing else runs while it is open.  *)
(***************************************************************************)
EXTENDS Naturals, Integers, Sequences, FiniteSets, TLC

VARIABLES
    registered,                   \* command names this plug-in has registered with the host
    pluginLoaded,                 \* host: this script plug-in is loaded
    AfterPluginUnloadCallbackId,  \* module global (None or a callback id)
    sceneCallbacks,               \* host: ids of this plug-in's subscribed scene callbacks
    nativeLoaded,                 \* host: the native Live Link plug-in is loaded
    scene,                        \* DAG paths of the nodes in the scene
    subjects,                     \* native plug-in: its subject list
    connection,                   \* native plug-in: [text, connected]
    unicastEndpoint,              \* native plug-in: unicast endpoint (a string)
    staticEndpoints,              \* native plug-in: static endpoints (a list of strings)
    ui,                           \* host: the MayaLiveLinkUI window and its controls
    dialog,                       \* host: the modal 'Set Network Endpoints' dialog
    lastOp,                       \* the handler that ran last: [op, result, arg]
    issued                        \* the native commands that handler issued, in order

vars == <<registered, pluginLoaded, AfterPluginUnloadCallbackId, sceneCallbacks,
          nativeLoaded, scene, subjects, connection, unicastEndpoint,
          staticEndpoints, ui, dialog, lastOp, issued>>

-----------------------------------------------------------------------------
(* Bounds of the model *)

\* longest subject list the native plug-in is driven to
MaxSubjects == 2
\* longest text typed into a field of the endpoints dialog
MaxLen == 3

-----------------------------------------------------------------------------
(* Values *)

None == "None"

\* ids the host hands out for scene callbacks
CallbackIds == {"cb1", "cb2"}

RECURSIVE IndexOf(_, _, _)
\* Python list.index (0-based) of x in s, searching from position i (1-based).
IndexOf(s, x, i) ==
    IF i > Len(s) THEN 0 - 1
    ELSE IF s[i] = x THEN i - 1
    ELSE IndexOf(s, x, i + 1)

SeqToSet(s) == {s[i] : i \in 1..Len(s)}

RECURSIVE Filter(_, _)
\* the elements of s that are in set keep, in order
Filter(s, keep) ==
    IF s = <<>> THEN <<>>
    ELSE (IF Head(s) \in keep THEN <<Head(s)>> ELSE <<>>) \o Filter(Tail(s), keep)

Min(a, b) == IF a <= b THEN a ELSE b

-----------------------------------------------------------------------------
(* StreamTypesPerSubjectType, lines 10-15 *)

AllSubjectTypes == {"Prop", "Character", "Camera", "Light"}

StreamTypesPerSubjectType(SubjectType) ==
    CASE SubjectType = "Prop"      -> <<"Root Only", "Full Hierarchy">>
      [] SubjectType = "Character" -> <<"Root Only", "Full Hierarchy">>
      [] SubjectType = "Camera"    -> <<"Root Only", "Full Hierarchy", "Camera">>
      [] SubjectType = "Light"     -> <<"Root Only", "Full Hierarchy", "Light">>

(* Connection UI colours, lines 104-109 *)
ConnectionActiveColour == <<71, 90, 10>>      \* [0.71, 0.9, 0.1], in hundredths
ConnectionInactiveColour == <<100, 40, 40>>   \* [1.0, 0.4, 0.4], in hundredths

ConnectionColourMap(ConnectedState) ==
    IF ConnectedState THEN ConnectionActiveColour ELSE ConnectionInactiveColour

(* Commands, line 315: the subclasses of LiveLinkCommand among dir(), which
   lists the module's names in alphabetical order *)
Commands ==
    <<"MayaLiveLinkRefreshConnectionUI", "MayaLiveLinkRefreshUI", "MayaLiveLinkUI">>

-----------------------------------------------------------------------------
(* The scene and the native plug-in's subjects (environment) *)

SmallScene == {"|camera1"}
\* scenes of three nodes that between them hold a node of every subject type
SceneChoices == {{"|camera1", "|prop1", "|char1"}, {"|light1", "|prop1", "|char1"}}

NodeType(path) ==
    CASE path = "|camera1" -> "Camera"
      [] path = "|prop1"   -> "Prop"
      [] path = "|char1"   -> "Character"
      [] path = "|light1"  -> "Light"

NodeName(path) ==
    CASE path = "|camera1" -> "camera1"
      [] path = "|prop1"   -> "prop1"
      [] path = "|char1"   -> "char1"
      [] path = "|light1"  -> "light1"

\* texts a user types into a subject's name field
TypedNames == {"renamed"}

ConnectionTexts == {"Connected", "No Connection"}

\* a native command's Python result for a string array: None when it is empty
CmdResult(array) ==
    IF array = <<>> THEN [isNone |-> TRUE, value |-> <<>>]
    ELSE [isNone |-> FALSE, value |-> array]

\* a native command as issued: its name, its string arguments and flags, and the
\* endpoints passed to it
Cmd(name, args) == [cmd |-> name, args |-> args, endpoints |-> <<>>]

\* the native plug-in's subject list after each of its commands
NativeRemoveSubject(subj, path) ==
    Filter(subj, {s \in SeqToSet(subj) : s.path # path})

NativeChangeSubjectName(subj, path, text) ==
    [i \in 1..Len(subj) |->
        IF subj[i].path = path THEN [subj[i] EXCEPT !.name = text] ELSE subj[i]]

NativeChangeSubjectStreamType(subj, path, streamType) ==
    [i \in 1..Len(subj) |->
        IF subj[i].path = path THEN [subj[i] EXCEPT !.role = streamType] ELSE subj[i]]

-----------------------------------------------------------------------------
(* The window and its controls (host UI state) *)

NoControl == [exists |-> FALSE, label |-> "", bg |-> <<>>]

\* no window named MayaLiveLinkUI.WindowName exists
NoWindow ==
    [window |-> FALSE, shown |-> FALSE, connUI |-> NoControl, wrapper |-> FALSE,
     table |-> FALSE, header |-> <<>>, rows |-> <<>>,
     addButton |-> FALSE, settingsMenu |-> FALSE]

\* cmds.window(WindowName, ...): a new window without controls, not yet shown
NewWindow == [NoWindow EXCEPT !.window = TRUE]

TableHeader == <<"", "Subject Type", "Subject Name", "DAG Path", "Stream Type">>

\* A handler's working state: the UI, whether an exception is propagating, and
\* the native commands issued so far.
Work(u) == [ui |-> u, err |-> FALSE, log |-> <<>>]

Raise(w) == [w EXCEPT !.err = TRUE]

\* cmds.deleteUI("SubjectLayout"): raises when no such layout exists
DeleteSubjectLayout(w) ==
    IF w.err THEN w
    ELSE IF ~w.ui.table THEN Raise(w)
    ELSE [w EXCEPT !.ui.table = FALSE, !.ui.header = <<>>, !.ui.rows = <<>>]

CreateSubjectTable(w) ==
    IF w.err THEN w
    ELSE IF ~w.ui.window THEN w
    ELSE IF ~w.ui.wrapper \/ w.ui.table THEN Raise(w)  \* no parent / name not unique
    ELSE [w EXCEPT !.ui.table = TRUE, !.ui.header = TableHeader, !.ui.rows = <<>>]

\* Python zip of the four arrays the native plug-in reports
Zip4(SubjectNames, SubjectPaths, SubjectTypes, SubjectRoles) ==
    [i \in 1..Min(Min(Len(SubjectNames), Len(SubjectPaths)),
                  Min(Len(SubjectTypes), Len(SubjectRoles))) |->
        [name |-> SubjectNames[i], path |-> SubjectPaths[i],
         type |-> SubjectTypes[i], role |-> SubjectRoles[i]]]

\* menu items are 1-indexed
StreamTypeIndex(SubjectType, SubjectRole) ==
    IndexOf(StreamTypesPerSubjectType(SubjectType), SubjectRole, 1) + 1

LayoutName(RowCounter) == <<"ColumnLayoutRow_", RowCounter>>

FirstSubjectTypeMenu(rows, currentParent) == 1

\* The menu that cmds.optionMenu("SubjectTypeMenu", edit=True, ...) edits: every
\* row has a menu of that short name; the host resolves the name under the
\* current parent, the column layout created last.
ResolveSubjectTypeMenu(rows, currentParent) ==
    CHOOSE i \in 1..Len(rows) : rows[i].layoutName = currentParent

NewRowBindsName(Subject, RowCounter) ==
    [removePath |-> Subject.path,
     typeLabel  |-> Subject.type,
     nameText   |-> Subject.name,
     namePath   |-> Subject.path,
     pathLabel  |-> Subject.path,
     layoutName |-> LayoutName(RowCounter),
     menuItems  |-> StreamTypesPerSubjectType(Subject.type),
     menuSelect |-> 1,
     menuPath   |-> Subject.name]

\* the controls of one subject's row, as created (a new optionMenu shows its
\* first item)
NewRow(Subject, RowCounter) ==
    [removePath |-> Subject.path,        \* Callback(OnRemoveSubject, SubjectPath)
     typeLabel  |-> Subject.type,
     nameText   |-> Subject.name,
     namePath   |-> Subject.path,        \* CallbackWithArgs(...SubjectName, SubjectPath)
     pathLabel  |-> Subject.path,
     layoutName |-> LayoutName(RowCounter),
     menuItems  |-> StreamTypesPerSubjectType(Subject.type),
     menuSelect |-> 1,
     menuPath   |-> Subject.path]        \* CallbackWithArgs(...StreamType, SubjectPath)

RECURSIVE PopulateRows(_, _, _)
\* the loop of PopulateSubjects over the zipped arrays, from row RowCounter on
PopulateRows(Zipped, rows, RowCounter) ==
    IF RowCounter >= Len(Zipped) THEN rows
    ELSE LET Subject == Zipped[RowCounter + 1]
             created == Append(rows, NewRow(Subject, RowCounter))
             menu    == ResolveSubjectTypeMenu(created, LayoutName(RowCounter))
             edited  == [created EXCEPT ![menu].menuSelect =
                            StreamTypeIndex(Subject.type, Subject.role)]
         IN PopulateRows(Zipped, edited, RowCounter + 1)

\* PopulateSubjects against the native subject list subj
PopulateSubjects(w, subj) ==
    IF w.err THEN w
    ELSE IF ~nativeLoaded THEN Raise(w)       \* cmds.LiveLinkSubjectNames is gone
    ELSE LET SubjectNames == CmdResult([i \in 1..Len(subj) |-> subj[i].name])
             SubjectPaths == CmdResult([i \in 1..Len(subj) |-> subj[i].path])
             SubjectTypeArray == CmdResult([i \in 1..Len(subj) |-> subj[i].type])
             SubjectRoles == CmdResult([i \in 1..Len(subj) |-> subj[i].role])
             queried == [w EXCEPT !.log = w.log \o
                            <<Cmd("LiveLinkSubjectNames", <<>>),
                              Cmd("LiveLinkSubjectPaths", <<>>),
                              Cmd("LiveLinkSubjectTypes", <<>>),
                              Cmd("LiveLinkSubjectRoles", <<>>)>>]
         IN IF SubjectPaths.isNone THEN queried
            ELSE IF ~w.ui.table THEN Raise(queried)   \* parent="SubjectLayout"
            ELSE [queried EXCEPT !.ui.rows =
                     PopulateRows(Zip4(SubjectNames.value, SubjectPaths.value,
                                       SubjectTypeArray.value, SubjectRoles.value),
                                  w.ui.rows, 0)]

ClearSubjects(w) ==
    IF w.err THEN w
    ELSE IF w.ui.window THEN DeleteSubjectLayout(w)
    ELSE w

RefreshSubjectsNoPopulate(w, subj) ==
    IF w.err THEN w
    ELSE IF w.ui.window
         THEN CreateSubjectTable(DeleteSubjectLayout(w))
         ELSE w

RefreshSubjects(w, subj) ==
    IF w.err THEN w
    ELSE IF w.ui.window
         THEN PopulateSubjects(CreateSubjectTable(DeleteSubjectLayout(w)), subj)
         ELSE w

\* what a finished handler leaves behind
Result(w) == IF w.err THEN "error" ELSE "ok"

Finish(op, arg, w) ==
    /\ ui' = w.ui
    /\ issued' = w.log
    /\ lastOp' = [op |-> op, result |-> Result(w), arg |-> arg]

-----------------------------------------------------------------------------
(* Plug-in lifecycle *)

RECURSIVE RegisterCommands(_, _, _)
\* The loop of initializePlugin from Commands[i] on.  mplugin.registerCommand
\* raises when the host already has a command of that name: one this plug-in
\* registered before, or (refused) one another plug-in owns.  The exception is
\* re-raised, so the loop stops there.
RegisterCommands(reg, refused, i) ==
    IF i > Len(Commands) THEN [registered |-> reg, err |-> FALSE]
    ELSE IF Commands[i] \in reg \/ Commands[i] = refused
         THEN [registered |-> reg, err |-> TRUE]
         ELSE RegisterCommands(reg \cup {Commands[i]}, refused, i + 1)

RECURSIVE DeregisterCommands(_, _)
\* The loop of uninitializePlugin from Commands[i] on.  mplugin.deregisterCommand
\* raises for a command that is not registered; the exception is reported and
\* the loop goes on.
DeregisterCommands(reg, i) ==
    IF i > Len(Commands) THEN reg
    ELSE DeregisterCommands(reg \ {Commands[i]}, i + 1)

\* uninitializePlugin's handling of the scene callback: removed when the id is set
CallbacksKeptOnUnload(callbacks, id) == callbacks

CallbacksAfterUnload(callbacks, id) ==
    IF id # None THEN callbacks \ {id} ELSE callbacks

\* The host loads the script plug-in and calls initializePlugin.  When it
\* raises, the load fails and the plug-in stays unloaded.
initializePlugin(refused) ==
    /\ ~dialog.open
    /\ ~pluginLoaded
    /\ LET r == RegisterCommands(registered, refused, 1)
       IN /\ registered' = r.registered
          /\ IF r.err
             THEN /\ UNCHANGED <<pluginLoaded, AfterPluginUnloadCallbackId, sceneCallbacks>>
                  /\ lastOp' = [op |-> "initializePlugin", result |-> "error", arg |-> <<>>]
             ELSE /\ \E id \in CallbackIds \ sceneCallbacks :
                        /\ AfterPluginUnloadCallbackId' = id
                        /\ sceneCallbacks' = sceneCallbacks \cup {id}
                  /\ pluginLoaded' = TRUE
                  /\ lastOp' = [op |-> "initializePlugin", result |-> "ok", arg |-> <<>>]
    /\ issued' = <<>>
    /\ UNCHANGED <<nativeLoaded, scene, subjects, connection, unicastEndpoint,
                   staticEndpoints, ui, dialog>>

\* The host unloads the script plug-in and calls uninitializePlugin.
uninitializePlugin ==
    /\ ~dialog.open
    /\ pluginLoaded
    /\ sceneCallbacks' = CallbacksAfterUnload(sceneCallbacks, AfterPluginUnloadCallbackId)
    /\ AfterPluginUnloadCallbackId' = None
    /\ registered' = DeregisterCommands(registered, 1)
    /\ pluginLoaded' = FALSE
    /\ lastOp' = [op |-> "uninitializePlugin", result |-> "ok", arg |-> <<>>]
    /\ issued' = <<>>
    /\ UNCHANGED <<nativeLoaded, scene, subjects, connection, unicastEndpoint,
                   staticEndpoints, ui, dialog>>

-----------------------------------------------------------------------------
(* The after-plugin-unload scene event *)

MayaLiveLinkPluginPrefix ==
    <<"M","a","y","a","L","i","v","e","L","i","n","k","P","l","u","g","i","n">>

\* Python str.startswith on strings as character sequences
StartsWith(stringVal, prefix) ==
    /\ Len(stringVal) >= Len(prefix)
    /\ SubSeq(stringVal, 1, Len(prefix)) = prefix

\* the string array of the event for the native plug-in: its name and its file
NativePluginArray ==
    << MayaLiveLinkPluginPrefix \o <<"2","0","2","0">>,
       <<"C",":","/">> \o MayaLiveLinkPluginPrefix \o <<"2","0","2","0",".","m","l","l">> >>

\* string arrays of the events for other plug-ins
OtherPluginArrays ==
    { << <<"f","b","x">>, <<"C",":","/","f","b","x",".","m","l","l">> >>,
      << <<"M","a","y","a","L","i","v","e","L","i","n","k">> >>,
      << <<"x">> \o MayaLiveLinkPluginPrefix >>,
      << <<"f","b","x">>, MayaLiveLinkPluginPrefix >>,
      << >> }

RECURSIVE MatchesAnyEntry(_, _)
\* whether the loop of AfterPluginUnloadCallback, from entry i on, meets an
\* entry starting with 'MayaLiveLinkPlugin'
MatchesAnyEntry(stringArray, i) ==
    IF i > Len(stringArray) THEN FALSE
    ELSE IF StartsWith(stringArray[i], MayaLiveLinkPluginPrefix) THEN TRUE
    ELSE MatchesAnyEntry(stringArray, i + 1)

AfterPluginUnloadCallback(w, stringArray) ==
    IF MatchesAnyEntry(stringArray, 1)
    THEN CreateSubjectTable(ClearSubjects(w))
    ELSE w

\* The host fires kAfterPluginUnload: every subscribed callback of this
\* plug-in runs (an exception it raises is reported by the host).
FireAfterPluginUnload(stringArray) ==
    LET called == sceneCallbacks # {}
        w == IF called THEN AfterPluginUnloadCallback(Work(ui), stringArray)
             ELSE Work(ui)
    IN Finish("kAfterPluginUnload",
              << IF MatchesAnyEntry(stringArray, 1) THEN "matching" ELSE "other",
                 IF called THEN "called" ELSE "not called" >>, w)

\* the native plug-in is loaded: its commands appear, it has no subjects yet
NativeLoad ==
    /\ ~dialog.open
    /\ ~nativeLoaded
    /\ nativeLoaded' = TRUE
    /\ subjects' = <<>>
    /\ \E c \in [text : ConnectionTexts, connected : BOOLEAN] : connection' = c
    /\ lastOp' = [op |-> "loadPlugin", result |-> "ok", arg |-> <<>>]
    /\ issued' = <<>>
    /\ UNCHANGED <<registered, pluginLoaded, AfterPluginUnloadCallbackId, sceneCallbacks,
                   scene, unicastEndpoint, staticEndpoints, ui, dialog>>

\* the native plug-in is unloaded: its commands and subjects are gone, then the
\* host fires the event
NativeUnload ==
    /\ ~dialog.open
    /\ nativeLoaded
    /\ nativeLoaded' = FALSE
    /\ subjects' = <<>>
    /\ FireAfterPluginUnload(NativePluginArray)
    /\ UNCHANGED <<registered, pluginLoaded, AfterPluginUnloadCallbackId, sceneCallbacks,
                   scene, connection, unicastEndpoint, staticEndpoints, dialog>>

\* another plug-in is unloaded
OtherPluginUnload ==
    /\ ~dialog.open
    /\ \E stringArray \in OtherPluginArrays : FireAfterPluginUnload(stringArray)
    /\ UNCHANGED <<registered, pluginLoaded, AfterPluginUnloadCallbackId, sceneCallbacks,
                   nativeLoaded, scene, subjects, connection, unicastEndpoint,
                   staticEndpoints, dialog>>

-----------------------------------------------------------------------------
(* The commands of this plug-in *)

\* cmds.LiveLinkConnectionStatus(), then the status text control built from it
ConnectionStatusUI(text, ConnectedState) ==
    [exists |-> TRUE, label |-> text, bg |-> ConnectionColourMap(ConnectedState)]

\* MayaLiveLinkUI.doIt on the UI u
doItWork(u) ==
    LET created == Work(NewWindow)       \* deleteUI of the old window, cmds.window
        header  == IF ~nativeLoaded THEN Raise(created)
                   ELSE [created EXCEPT
                            !.log = <<Cmd("LiveLinkConnectionStatus", <<>>)>>,
                            !.ui.connUI = ConnectionStatusUI(connection.text,
                                                             connection.connected),
                            !.ui.wrapper = TRUE]
        table   == PopulateSubjects(CreateSubjectTable(header), subjects)
    IN IF table.err THEN table
       ELSE [table EXCEPT !.ui.addButton = TRUE, !.ui.settingsMenu = TRUE,
                          !.ui.shown = TRUE]

MayaLiveLinkUI_doIt ==
    /\ ~dialog.open
    /\ "MayaLiveLinkUI" \in registered
    /\ Finish("MayaLiveLinkUI.doIt", <<>>, doItWork(ui))
    /\ UNCHANGED <<registered, pluginLoaded, AfterPluginUnloadCallbackId, sceneCallbacks,
                   nativeLoaded, scene, subjects, connection, unicastEndpoint,
                   staticEndpoints, dialog>>

MayaLiveLinkRefreshUI_doIt ==
    /\ ~dialog.open
    /\ "MayaLiveLinkRefreshUI" \in registered
    /\ Finish("MayaLiveLinkRefreshUI.doIt", <<>>, RefreshSubjects(Work(ui), subjects))
    /\ UNCHANGED <<registered, pluginLoaded, AfterPluginUnloadCallbackId, sceneCallbacks,
                   nativeLoaded, scene, subjects, connection, unicastEndpoint,
                   staticEndpoints, dialog>>

\* MayaLiveLinkRefreshConnectionUI.doIt on the UI u
RefreshConnectionWork(u) ==
    IF ~u.window THEN Work(u)
    ELSE IF ~nativeLoaded THEN Raise(Work(u))
    ELSE LET queried == [Work(u) EXCEPT
                            !.log = <<Cmd("LiveLinkConnectionStatus", <<>>)>>]
         IN IF ~u.connUI.exists THEN Raise(queried)   \* edit of a missing control
            ELSE [queried EXCEPT !.ui.connUI =
                     ConnectionStatusUI(connection.text, connection.connected)]

MayaLiveLinkRefreshConnectionUI_doIt ==
    /\ ~dialog.open
    /\ "MayaLiveLinkRefreshConnectionUI" \in registered
    /\ Finish("MayaLiveLinkRefreshConnectionUI.doIt", <<>>, RefreshConnectionWork(ui))
    /\ UNCHANGED <<registered, pluginLoaded, AfterPluginUnloadCallbackId, sceneCallbacks,
                   nativeLoaded, scene, subjects, connection, unicastEndpoint,
                   staticEndpoints, dialog>>

-----------------------------------------------------------------------------
(* The callbacks of the window's controls *)

\* the '-' button of row i: Callback(OnRemoveSubject, SubjectPath)
OnRemoveSubject(i) ==
    /\ ~dialog.open
    /\ ui.shown
    /\ i \in 1..Len(ui.rows)
    /\ LET SubjectPath == ui.rows[i].removePath
           shownPath == ui.rows[i].pathLabel
       IN IF ~nativeLoaded
          THEN /\ Finish("OnRemoveSubject", <<shownPath>>, Raise(Work(ui)))
               /\ UNCHANGED subjects
          ELSE /\ subjects' = NativeRemoveSubject(subjects, SubjectPath)
               /\ Finish("OnRemoveSubject", <<shownPath>>,
                         RefreshSubjects(
                             [Work(ui) EXCEPT !.log =
                                 <<Cmd("LiveLinkRemoveSubject", <<SubjectPath>>)>>],
                             subjects'))
    /\ UNCHANGED <<registered, pluginLoaded, AfterPluginUnloadCallbackId, sceneCallbacks,
                   nativeLoaded, scene, connection, unicastEndpoint, staticEndpoints, dialog>>

\* the name field of row i is edited to text:
\* CallbackWithArgs(cmds.LiveLinkChangeSubjectName, SubjectPath)(text)
OnChangeSubjectName(i, text) ==
    /\ ~dialog.open
    /\ ui.shown
    /\ i \in 1..Len(ui.rows)
    /\ LET SubjectPath == ui.rows[i].namePath
           shownPath == ui.rows[i].pathLabel
           typed == [Work(ui) EXCEPT !.ui.rows[i].nameText = text]
       IN IF ~nativeLoaded
          THEN /\ Finish("LiveLinkChangeSubjectName", <<shownPath, text>>, Raise(typed))
               /\ UNCHANGED subjects
          ELSE /\ subjects' = NativeChangeSubjectName(subjects, SubjectPath, text)
               /\ Finish("LiveLinkChangeSubjectName", <<shownPath, text>>,
                         [typed EXCEPT !.log =
                             <<Cmd("LiveLinkChangeSubjectName", <<SubjectPath, text>>)>>])
    /\ UNCHANGED <<registered, pluginLoaded, AfterPluginUnloadCallbackId, sceneCallbacks,
                   nativeLoaded, scene, connection, unicastEndpoint, staticEndpoints, dialog>>

\* item k of the stream-type menu of row i is chosen:
\* CallbackWithArgs(cmds.LiveLinkChangeSubjectStreamType, SubjectPath)(label)
OnChangeSubjectStreamType(i, k) ==
    /\ ~dialog.open
    /\ ui.shown
    /\ i \in 1..Len(ui.rows)
    /\ k \in 1..Len(ui.rows[i].menuItems)
    /\ k # ui.rows[i].menuSelect
    /\ LET SubjectPath == ui.rows[i].menuPath
           shownPath == ui.rows[i].pathLabel
           StreamType == ui.rows[i].menuItems[k]
           chosen == [Work(ui) EXCEPT !.ui.rows[i].menuSelect = k]
       IN IF ~nativeLoaded
          THEN /\ Finish("LiveLinkChangeSubjectStreamType", <<shownPath, StreamType>>,
                         Raise(chosen))
               /\ UNCHANGED subjects
          ELSE /\ subjects' = NativeChangeSubjectStreamType(subjects, SubjectPath, StreamType)
               /\ Finish("LiveLinkChangeSubjectStreamType", <<shownPath, StreamType>>,
                         [chosen EXCEPT !.log =
                             <<Cmd("LiveLinkChangeSubjectStreamType",
                                   <<SubjectPath, StreamType>>)>>])
    /\ UNCHANGED <<registered, pluginLoaded, AfterPluginUnloadCallbackId, sceneCallbacks,
                   nativeLoaded, scene, connection, unicastEndpoint, staticEndpoints, dialog>>

\* the native plug-in's subject list after LiveLinkAddSelection with node
\* selection selected (None: nothing selected) and the role it gives a new subject
NativeAddSelection(subj, selection, role) ==
    IF selection = None \/ \E i \in 1..Len(subj) : subj[i].path = selection
    THEN subj
    ELSE Append(subj, [name |-> NodeName(selection), path |-> selection,
                       type |-> NodeType(selection), role |-> role])

\* the 'Add Selection' button
AddSelection(selection, role) ==
    /\ ~dialog.open
    /\ ui.shown
    /\ Len(NativeAddSelection(subjects, selection, role)) <= MaxSubjects
    /\ IF ~nativeLoaded
       THEN /\ Finish("AddSelection", <<>>, Raise(Work(ui)))
            /\ UNCHANGED subjects
       ELSE /\ subjects' = NativeAddSelection(subjects, selection, role)
            /\ Finish("AddSelection", <<>>,
                      RefreshSubjects(
                          [Work(ui) EXCEPT !.log = <<Cmd("LiveLinkAddSelection", <<>>)>>],
                          subjects'))
    /\ UNCHANGED <<registered, pluginLoaded, AfterPluginUnloadCallbackId, sceneCallbacks,
                   nativeLoaded, scene, connection, unicastEndpoint, staticEndpoints, dialog>>

\* the user closes the window, which deletes it
CloseWindow ==
    /\ ~dialog.open
    /\ ui.shown
    /\ ui' = NoWindow
    /\ lastOp' = [op |-> "closeWindow", result |-> "ok", arg |-> <<>>]
    /\ issued' = <<>>
    /\ UNCHANGED <<registered, pluginLoaded, AfterPluginUnloadCallbackId, sceneCallbacks,
                   nativeLoaded, scene, subjects, connection, unicastEndpoint,
                   staticEndpoints, dialog>>

-----------------------------------------------------------------------------
(* The native plug-in changing on its own (environment) *)

\* the connection to the engine changes
ConnectionChange ==
    /\ ~dialog.open
    /\ nativeLoaded
    /\ \E c \in [text : ConnectionTexts, connected : BOOLEAN] :
          c # connection /\ connection' = c
    /\ lastOp' = [op |-> "connectionChange", result |-> "ok", arg |-> <<>>]
    /\ issued' = <<>>
    /\ UNCHANGED <<registered, pluginLoaded, AfterPluginUnloadCallbackId, sceneCallbacks,
                   nativeLoaded, scene, subjects, unicastEndpoint, staticEndpoints, ui, dialog>>

\* a script removes a subject through the native command, not through the window
ScriptRemoveSubject ==
    /\ ~dialog.open
    /\ nativeLoaded
    /\ \E i \in 1..Len(subjects) :
          subjects' = NativeRemoveSubject(subjects, subjects[i].path)
    /\ lastOp' = [op |-> "scriptRemoveSubject", result |-> "ok", arg |-> <<>>]
    /\ issued' = <<>>
    /\ UNCHANGED <<registered, pluginLoaded, AfterPluginUnloadCallbackId, sceneCallbacks,
                   nativeLoaded, scene, connection, unicastEndpoint, staticEndpoints, ui, dialog>>

-----------------------------------------------------------------------------
(* Strings of the endpoints dialog, as character sequences *)

\* the characters typed into the dialog's fields: a character of an endpoint,
\* a blank and the separator
Chars == {"a", " ", ","}

Texts == UNION {[1..n -> Chars] : n \in 0..MaxLen}

\* what is typed into the unicast field
UnicastTexts == { <<>>, <<" ">>, <<" ", "a", " ">>, <<"a", "a">> }

RECURSIVE LStrip(_)
LStrip(s) == IF s # <<>> /\ Head(s) = " " THEN LStrip(Tail(s)) ELSE s

RECURSIVE RStrip(_)
RStrip(s) ==
    IF s # <<>> /\ s[Len(s)] = " " THEN RStrip(SubSeq(s, 1, Len(s) - 1)) ELSE s

\* Python str.strip()
Strip(s) == RStrip(LStrip(s))

RECURSIVE Split(_, _)
\* Python str.split(sep), sep one character
Split(s, sep) ==
    LET k == IndexOf(s, sep, 1)
    IN IF k < 0 THEN <<s>>
       ELSE <<SubSeq(s, 1, k)>> \o Split(SubSeq(s, k + 2, Len(s)), sep)

RECURSIVE Join(_, _)
\* Python sep.join(list)
Join(list, sep) ==
    IF list = <<>> THEN <<>>
    ELSE IF Len(list) = 1 THEN list[1]
    ELSE list[1] \o sep \o Join(Tail(list), sep)

UnicastKey == <<"u", "n", "i", "c", "a", "s", "t">>
StaticKey == <<"s", "t", "a", "t", "i", "c">>

RECURSIVE JsonEscape(_)
JsonEscape(s) ==
    IF s = <<>> THEN <<>>
    ELSE (IF Head(s) \in {"\"", "\\"} THEN <<"\\", Head(s)>> ELSE <<Head(s)>>)
         \o JsonEscape(Tail(s))

JsonString(s) == <<"\"">> \o JsonEscape(s) \o <<"\"">>

JsonArray(list) ==
    <<"[">> \o Join([i \in 1..Len(list) |-> JsonString(list[i])], <<",", " ">>) \o <<"]">>

\* json.dumps of {'unicast': <string>, 'static': <list of strings>}
JsonDumps(EndpointsDict) ==
    <<"{">> \o JsonString(UnicastKey) \o <<":", " ">> \o JsonString(EndpointsDict.unicast)
    \o <<",", " ">> \o JsonString(StaticKey) \o <<":", " ">>
    \o JsonArray(EndpointsDict.static) \o <<"}">>

RECURSIVE ScanString(_, _, _)
\* the JSON string whose characters start at t[j], after its opening quote
ScanString(t, j, acc) ==
    IF t[j] = "\"" THEN [value |-> acc, next |-> j + 1]
    ELSE IF t[j] = "\\" THEN ScanString(t, j + 2, Append(acc, t[j + 1]))
    ELSE ScanString(t, j + 1, Append(acc, t[j]))

RECURSIVE ScanArray(_, _, _)
\* the JSON array of strings whose elements start at t[j], after its '['
ScanArray(t, j, acc) ==
    IF t[j] = "]" THEN [value |-> acc, next |-> j + 1]
    ELSE IF t[j] \in {",", " "} THEN ScanArray(t, j + 1, acc)
    ELSE LET element == ScanString(t, j + 1, <<>>)
         IN ScanArray(t, element.next, Append(acc, element.value))

ScanValue(t, j) ==
    IF t[j] = "[" THEN ScanArray(t, j + 1, <<>>) ELSE ScanString(t, j + 1, <<>>)

\* json.loads of an object with two keys: a function from its keys
JsonLoads(t) ==
    LET key1 == ScanString(t, 3, <<>>)
        value1 == ScanValue(t, key1.next + 2)
        key2 == ScanString(t, value1.next + 3, <<>>)
        value2 == ScanValue(t, key2.next + 2)
    IN [k \in {key1.value, key2.value} |->
           IF k = key1.value THEN value1.value ELSE value2.value]

-----------------------------------------------------------------------------
(* MayaLiveLinkUI.ShowNetworkEndpointsDialog *)

\* the default unicast endpoint, '0.0.0.0:0'
DefaultUnicastEndpoint == <<"0", ".", "0", ".", "0", ".", "0", ":", "0">>

ClosedDialog ==
    [open |-> FALSE, UnicastEndpoint |-> <<>>, StaticEndpoints |-> <<>>,
     UnicastTextField |-> <<>>, StaticTextField |-> <<>>, edited |-> FALSE]

\* the orders in which list(set) may enumerate a set
Orders(set) ==
    {order \in [1..Cardinality(set) -> set] :
        \A i, j \in 1..Cardinality(set) : order[i] = order[j] => i = j}

\* LiveLinkMessagingSettings(..., unicastEndpoint=True) and its static-endpoint forms
EndpointCmd(flags, endpoints) ==
    [cmd |-> "LiveLinkMessagingSettings", args |-> flags, endpoints |-> endpoints]

\* the native plug-in's endpoint list after removeEndpoint and after addEndpoint
NativeRemoveEndpoints(list, endpoints) ==
    Filter(list, SeqToSet(list) \ SeqToSet(endpoints))

RECURSIVE NativeAddEndpoints(_, _)
NativeAddEndpoints(list, endpoints) ==
    IF endpoints = <<>> THEN list
    ELSE NativeAddEndpoints(
             IF Head(endpoints) \in SeqToSet(list) THEN list
             ELSE Append(list, Head(endpoints)),
             Tail(endpoints))

\* The menu item 'Network Endpoints', up to the modal dialog being shown: the
\* current settings are queried and CreateUI fills the two fields with them.
ShowNetworkEndpointsDialog ==
    /\ ui.shown
    /\ ~dialog.open
    /\ IF ~nativeLoaded
       THEN /\ UNCHANGED dialog
            /\ Finish("ShowNetworkEndpointsDialog", <<>>, Raise(Work(ui)))
       ELSE /\ dialog' = [open |-> TRUE,
                          UnicastEndpoint |-> unicastEndpoint,
                          StaticEndpoints |-> staticEndpoints,
                          UnicastTextField |-> unicastEndpoint,
                          StaticTextField |-> Join(staticEndpoints, <<",">>),
                          edited |-> FALSE]
            /\ Finish("ShowNetworkEndpointsDialog", <<>>,
                      [Work(ui) EXCEPT !.log =
                          <<EndpointCmd(<<"q", "unicastEndpoint">>, <<>>),
                            EndpointCmd(<<"q", "staticEndpoints">>, <<>>)>>])
    /\ UNCHANGED <<registered, pluginLoaded, AfterPluginUnloadCallbackId, sceneCallbacks,
                   nativeLoaded, scene, subjects, connection, unicastEndpoint,
                   staticEndpoints>>

\* the user's edits of the two fields before a button is pressed
EditEndpointFields(unicastText, staticText) ==
    /\ dialog.open
    /\ ~dialog.edited
    /\ dialog' = [dialog EXCEPT !.UnicastTextField = unicastText,
                                !.StaticTextField = staticText,
                                !.edited = TRUE]
    /\ lastOp' = [op |-> "editEndpointFields", result |-> "ok", arg |-> <<>>]
    /\ issued' = <<>>
    /\ UNCHANGED <<registered, pluginLoaded, AfterPluginUnloadCallbackId, sceneCallbacks,
                   nativeLoaded, scene, subjects, connection, unicastEndpoint,
                   staticEndpoints, ui>>

\* _OnOk: the unicast endpoint read from its field
NewUnicastEndpointOf(text) ==
    IF Strip(text) = <<>> THEN DefaultUnicastEndpoint ELSE Strip(text)

NewStaticEndpointsUnstripped(text) ==
    IF Strip(text) = <<>> THEN <<>> ELSE Split(Strip(text), ",")

\* _OnOk: the static endpoints read from their field
NewStaticEndpointsOf(text) ==
    IF Strip(text) = <<>> THEN <<>>
    ELSE LET parts == Split(Strip(text), ",")
         IN [i \in 1..Len(parts) |-> Strip(parts[i])]

\* _OnOk: the string the dialog is dismissed with
OnOkResult ==
    JsonDumps([unicast |-> NewUnicastEndpointOf(dialog.UnicastTextField),
               static |-> NewStaticEndpointsOf(dialog.StaticTextField)])

\* The 'Ok' button, and ShowNetworkEndpointsDialog from the return of
\* cmds.layoutDialog on: the settings that differ are applied.
OnOk ==
    /\ dialog.open
    /\ LET result == OnOkResult
           EndpointsDict == JsonLoads(result)
           NewUnicastEndpoint == EndpointsDict[UnicastKey]
           NewStaticEndpoints == EndpointsDict[StaticKey]
           UnicastEndpoint == dialog.UnicastEndpoint
           StaticEndpoints == dialog.StaticEndpoints
           unicastCmds == IF NewUnicastEndpoint # UnicastEndpoint
                          THEN <<EndpointCmd(<<"unicastEndpoint">>, <<NewUnicastEndpoint>>)>>
                          ELSE <<>>
           RemovedSet == SeqToSet(StaticEndpoints) \ SeqToSet(NewStaticEndpoints)
           AddedSet == SeqToSet(NewStaticEndpoints) \ SeqToSet(StaticEndpoints)
       IN /\ result # <<>>
          /\ unicastEndpoint' = IF NewUnicastEndpoint # UnicastEndpoint
                                THEN NewUnicastEndpoint ELSE unicastEndpoint
          /\ IF NewStaticEndpoints # StaticEndpoints
             THEN \E RemovedStaticEndpoints \in Orders(RemovedSet),
                     AddedStaticEndpoints \in Orders(AddedSet) :
                     /\ staticEndpoints' =
                           NativeAddEndpoints(
                               NativeRemoveEndpoints(staticEndpoints, RemovedStaticEndpoints),
                               AddedStaticEndpoints)
                     /\ issued' = unicastCmds
                           \o (IF RemovedStaticEndpoints # <<>>
                               THEN <<EndpointCmd(<<"staticEndpoints", "removeEndpoint">>,
                                                  RemovedStaticEndpoints)>>
                               ELSE <<>>)
                           \o (IF AddedStaticEndpoints # <<>>
                               THEN <<EndpointCmd(<<"staticEndpoints", "addEndpoint">>,
                                                  AddedStaticEndpoints)>>
                               ELSE <<>>)
             ELSE /\ UNCHANGED staticEndpoints
                  /\ issued' = unicastCmds
    /\ dialog' = ClosedDialog
    /\ lastOp' = [op |-> "ShowNetworkEndpointsDialog._OnOk", result |-> "ok", arg |-> <<>>]
    /\ UNCHANGED <<registered, pluginLoaded, AfterPluginUnloadCallbackId, sceneCallbacks,
                   nativeLoaded, scene, subjects, connection, ui>>

\* The 'Cancel' button dismisses the dialog with the empty string: nothing is applied.
OnCancel ==
    /\ dialog.open
    /\ dialog' = ClosedDialog
    /\ lastOp' = [op |-> "ShowNetworkEndpointsDialog._OnCancel", result |-> "ok",
                  arg |-> <<>>]
    /\ issued' = <<>>
    /\ UNCHANGED <<registered, pluginLoaded, AfterPluginUnloadCallbackId, sceneCallbacks,
                   nativeLoaded, scene, subjects, connection, unicastEndpoint,
                   staticEndpoints, ui>>

-----------------------------------------------------------------------------
(* The specification: the script plug-in in a scene of one node *)

InitModule ==
    /\ registered = {}
    /\ pluginLoaded = FALSE
    /\ AfterPluginUnloadCallbackId = None
    /\ sceneCallbacks = {}
    /\ subjects = <<>>
    /\ ui = NoWindow
    /\ dialog = ClosedDialog
    /\ lastOp = [op |-> "import", result |-> "ok", arg |-> <<>>]
    /\ issued = <<>>

Init ==
    /\ InitModule
    /\ nativeLoaded \in BOOLEAN
    /\ scene = SmallScene
    /\ connection \in [text : ConnectionTexts, connected : BOOLEAN]
    /\ unicastEndpoint = DefaultUnicastEndpoint
    /\ staticEndpoints = <<>>

SubjectCallbacks ==
    \/ \E i \in 1..MaxSubjects + 1 : OnRemoveSubject(i)
    \/ \E i \in 1..MaxSubjects + 1, text \in TypedNames : OnChangeSubjectName(i, text)
    \/ \E i \in 1..MaxSubjects + 1, k \in 1..3 : OnChangeSubjectStreamType(i, k)
    \/ \E selection \in scene \cup {None} :
          \E role \in SeqToSet(StreamTypesPerSubjectType(
                          IF selection = None THEN "Prop" ELSE NodeType(selection))) :
             AddSelection(selection, role)

Next ==
    \/ \E refused \in SeqToSet(Commands) \cup {None} : initializePlugin(refused)
    \/ uninitializePlugin
    \/ NativeLoad
    \/ NativeUnload
    \/ OtherPluginUnload
    \/ MayaLiveLinkUI_doIt
    \/ MayaLiveLinkRefreshUI_doIt
    \/ MayaLiveLinkRefreshConnectionUI_doIt
    \/ SubjectCallbacks
    \/ CloseWindow
    \/ ConnectionChange
    \/ ScriptRemoveSubject

Spec == Init /\ [][Next]_vars

-----------------------------------------------------------------------------
(* The subject table in scenes of three nodes: the native plug-in stays loaded
   and connected, the script plug-in loads without error *)

InitSubjects ==
    /\ InitModule
    /\ nativeLoaded = TRUE
    /\ scene \in SceneChoices
    /\ connection = [text |-> "Connected", connected |-> TRUE]
    /\ unicastEndpoint = DefaultUnicastEndpoint
    /\ staticEndpoints = <<>>

NextSubjects ==
    \/ initializePlugin(None)
    \/ MayaLiveLinkUI_doIt
    \/ MayaLiveLinkRefreshUI_doIt
    \/ SubjectCallbacks
    \/ CloseWindow

SpecSubjects == InitSubjects /\ [][NextSubjects]_vars

-----------------------------------------------------------------------------
(* The endpoints dialog: the native plug-in stays loaded, the scene is empty *)

InitEndpoints ==
    /\ InitModule
    /\ nativeLoaded = TRUE
    /\ scene = {}
    /\ connection = [text |-> "Connected", connected |-> TRUE]
    /\ unicastEndpoint \in {DefaultUnicastEndpoint, <<"a">>}
    /\ staticEndpoints \in {<<>>, << <<"a">> >>, << <<"a", "a">>, <<"a">> >>}

NextEndpoints ==
    \/ initializePlugin(None)
    \/ MayaLiveLinkUI_doIt
    \/ ShowNetworkEndpointsDialog
    \/ \E unicastText \in UnicastTexts \cup {dialog.UnicastTextField},
          staticText \in Texts \cup {dialog.StaticTextField} :
          EditEndpointFields(unicastText, staticText)
    \/ OnOk
    \/ OnCancel

SpecEndpoints == InitEndpoints /\ [][NextEndpoints]_vars

-----------------------------------------------------------------------------
(* Properties *)

PopulatingOps ==
    {"MayaLiveLinkUI.doIt", "MayaLiveLinkRefreshUI.doIt", "AddSelection", "OnRemoveSubject"}

RowCommands ==
    {"LiveLinkRemoveSubject", "LiveLinkChangeSubjectName", "LiveLinkChangeSubjectStreamType"}

\* C1: after an initializePlugin that completes without error the three
\* commands are registered and one scene callback is subscribed; after the
\* following uninitializePlugin no command is registered and no callback is
\* subscribed; AfterPluginUnloadCallbackId is set exactly when a callback is
\* subscribed, and then it is that callback's id.
C1_PluginLifecycle ==
    /\ (lastOp.op = "initializePlugin" /\ lastOp.result = "ok")
          => /\ registered = {"MayaLiveLinkUI", "MayaLiveLinkRefreshUI",
                              "MayaLiveLinkRefreshConnectionUI"}
             /\ Cardinality(sceneCallbacks) = 1
    /\ lastOp.op = "uninitializePlugin"
          => /\ registered = {}
             /\ sceneCallbacks = {}
    /\ (AfterPluginUnloadCallbackId # None) <=> (sceneCallbacks # {})
    /\ AfterPluginUnloadCallbackId # None
          => sceneCallbacks = {AfterPluginUnloadCallbackId}

\* C1's case: the plug-in was loaded, the window opened, and the plug-in unloaded
C1_Witness ==
    /\ lastOp.op = "uninitializePlugin"
    /\ ui.window
    /\ registered = {}
    /\ AfterPluginUnloadCallbackId = None

\* the callback of a row issued exactly command cmd on the path the row shows
RowIssued(cmd) ==
    /\ issued # <<>>
    /\ issued[1] = Cmd(cmd, lastOp.arg)
    /\ \A k \in 2..Len(issued) : issued[k].args = <<>>

C2_RowPart ==
    /\ (lastOp.op = "OnRemoveSubject" /\ nativeLoaded)
          => RowIssued("LiveLinkRemoveSubject")
    /\ (lastOp.op = "LiveLinkChangeSubjectName" /\ nativeLoaded)
          => RowIssued("LiveLinkChangeSubjectName") /\ Len(issued) = 1
    /\ (lastOp.op = "LiveLinkChangeSubjectStreamType" /\ nativeLoaded)
          => RowIssued("LiveLinkChangeSubjectStreamType") /\ Len(issued) = 1
    /\ \A k \in 1..Len(issued) :
          issued[k].cmd \in RowCommands
             => /\ lastOp.op \in {"OnRemoveSubject"} \cup RowCommands
                /\ issued[k].args[1] = lastOp.arg[1]

\* a handler of this plug-in changed the native plug-in's subject list
SubjectsChangedByUI == subjects' # subjects /\ issued' # <<>>

\* C2 as claimed: a row's control issues its command with the path the row
\* shows and never another row's path, and the UI changes the native subject
\* list by no other means than these three commands.
C2_Original ==
    /\ []C2_RowPart
    /\ [][SubjectsChangedByUI
            => \E k \in 1..Len(issued') : issued'[k].cmd \in RowCommands]_vars

\* the only commands the UI issues that are not queries
C2_IssuedCommands ==
    \A k \in 1..Len(issued) :
       \/ issued[k].cmd \in RowCommands
       \/ issued[k] = Cmd("LiveLinkAddSelection", <<>>) /\ lastOp.op = "AddSelection"
       \/ issued[k].cmd \in {"LiveLinkSubjectNames", "LiveLinkSubjectPaths",
                             "LiveLinkSubjectTypes", "LiveLinkSubjectRoles",
                             "LiveLinkConnectionStatus", "LiveLinkMessagingSettings"}

\* C2 as amended: a row's control issues its command with the path the row
\* shows and never another row's path, and the UI changes the native subject
\* list only by these three commands and by LiveLinkAddSelection, which the
\* 'Add Selection' button issues.
C2_RowControlsPassThrough ==
    /\ []C2_RowPart
    /\ []C2_IssuedCommands
    /\ [][SubjectsChangedByUI
            => \E k \in 1..Len(issued') :
                  \/ issued'[k].cmd \in RowCommands
                  \/ issued'[k].cmd = "LiveLinkAddSelection"]_vars

\* C2's case: with two rows, the stream type of the second row was changed
C2_Witness ==
    /\ lastOp.op = "LiveLinkChangeSubjectStreamType"
    /\ Len(ui.rows) = 2
    /\ lastOp.arg[1] = ui.rows[2].pathLabel
    /\ issued = <<Cmd("LiveLinkChangeSubjectStreamType",
                      <<ui.rows[2].pathLabel, lastOp.arg[2]>>)>>

\* C3: when the window exists after doIt, RefreshSubjects, AddSelection or
\* OnRemoveSubject has completed, the table holds one row per subject the
\* native plug-in reports, in that order, showing its type, name and path.
C3_TableShowsReportedSubjects ==
    (lastOp.op \in PopulatingOps /\ lastOp.result = "ok" /\ ui.window)
       => /\ ui.table
          /\ ui.header = TableHeader
          /\ Len(ui.rows) = Len(subjects)
          /\ \A i \in 1..Len(ui.rows) :
                /\ ui.rows[i].typeLabel = subjects[i].type
                /\ ui.rows[i].nameText = subjects[i].name
                /\ ui.rows[i].pathLabel = subjects[i].path

\* C3's case: a subject was removed with '-' and a renamed subject is still listed
C3_Witness ==
    /\ lastOp.op = "OnRemoveSubject"
    /\ lastOp.result = "ok"
    /\ Len(ui.rows) = 1
    /\ ui.rows[1].nameText = "renamed"
    /\ ui.rows[1].pathLabel # lastOp.arg[1]

\* C4: every row PopulateSubjects built has a menu listing the stream types of
\* its subject's type, in order, with the subject's current role selected.
C4_StreamTypeMenu ==
    (lastOp.op \in PopulatingOps /\ lastOp.result = "ok" /\ ui.window)
       => /\ Len(ui.rows) = Len(subjects)
          /\ \A i \in 1..Len(ui.rows) :
                /\ ui.rows[i].menuItems = StreamTypesPerSubjectType(subjects[i].type)
                /\ ui.rows[i].menuSelect \in 1..Len(ui.rows[i].menuItems)
                /\ ui.rows[i].menuItems[ui.rows[i].menuSelect] = subjects[i].role
                /\ \A k \in 1..Len(ui.rows[i].menuItems) :
                      ui.rows[i].menuItems[k] = subjects[i].role
                         => k = ui.rows[i].menuSelect

\* C4's case: two rows were built, a light streaming as "Light" after a prop
\* streaming as "Full Hierarchy"
C4_Witness ==
    /\ lastOp.op \in PopulatingOps
    /\ lastOp.result = "ok"
    /\ Len(ui.rows) = 2
    /\ ui.rows[1].typeLabel = "Prop" /\ ui.rows[1].menuSelect = 2
    /\ ui.rows[2].typeLabel = "Light" /\ ui.rows[2].menuSelect = 3
    /\ subjects[2].role = "Light"

\* C6: when the window exists after MayaLiveLinkUI.doIt or
\* MayaLiveLinkRefreshConnectionUI.doIt, ConnectionStatusUI shows the status
\* text the native plug-in reports on the active colour exactly when it reports
\* connected; without the window MayaLiveLinkRefreshConnectionUI.doIt queries
\* nothing and changes no UI.
C6_ConnectionDisplay ==
    /\ (lastOp.op \in {"MayaLiveLinkUI.doIt", "MayaLiveLinkRefreshConnectionUI.doIt"}
          /\ ui.window /\ nativeLoaded)
          => /\ ui.connUI.exists
             /\ ui.connUI.label = connection.text
             /\ (ui.connUI.bg = <<71, 90, 10>>) <=> connection.connected
             /\ (ui.connUI.bg = <<100, 40, 40>>) <=> ~connection.connected
    /\ (lastOp.op = "MayaLiveLinkRefreshConnectionUI.doIt" /\ ~ui.window)
          => issued = <<>> /\ ui = NoWindow

\* C7: while the callback is subscribed and the window exists, an
\* after-plugin-unload event with an entry starting with 'MayaLiveLinkPlugin'
\* leaves the table present with its header and no rows and issues no native
\* command; an event without such an entry leaves the table unchanged; after
\* uninitializePlugin no event changes the table.
C7_NativePluginUnload ==
    [][lastOp'.op = "kAfterPluginUnload"
         => /\ (sceneCallbacks # {} /\ ui.window /\ lastOp'.arg[1] = "matching")
                  => /\ ui'.table
                     /\ ui'.header = TableHeader
                     /\ ui'.rows = <<>>
                     /\ issued' = <<>>
            /\ lastOp'.arg[1] = "other" => ui' = ui
            /\ ~pluginLoaded => ui' = ui]_vars

\* the endpoints passed to the commands issued with flag
PassedEndpoints(log, flag) ==
    UNION {SeqToSet(log[k].endpoints) :
              k \in {n \in 1..Len(log) : log[n].cmd = "LiveLinkMessagingSettings"
                                         /\ flag \in SeqToSet(log[n].args)}}

\* the endpoints typed into the static field: its comma-separated entries,
\* stripped; none when the field holds only blanks
EnteredEndpoints(text) ==
    IF \A i \in 1..Len(text) : text[i] = " " THEN {}
    ELSE {Strip(entry) : entry \in SeqToSet(Split(text, ","))}

\* C5: after Ok the native unicast endpoint is the stripped text entered (the
\* default '0.0.0.0:0' for an emptied field) and the native static endpoints
\* are the entered ones; the remove command gets previous-minus-new, the add
\* command new-minus-previous, and the two are disjoint.
C5_EndpointsApplied ==
    [][(dialog.open /\ lastOp'.op = "ShowNetworkEndpointsDialog._OnOk")
         => LET entered == EnteredEndpoints(dialog.StaticTextField)
                previous == SeqToSet(staticEndpoints)
                removed == PassedEndpoints(issued', "removeEndpoint")
                added == PassedEndpoints(issued', "addEndpoint")
            IN /\ unicastEndpoint' =
                     (IF Strip(dialog.UnicastTextField) = <<>>
                      THEN <<"0", ".", "0", ".", "0", ".", "0", ":", "0">>
                      ELSE Strip(dialog.UnicastTextField))
               /\ SeqToSet(staticEndpoints') = entered
               /\ removed = previous \ entered
               /\ added = entered \ previous
               /\ removed \cap added = {}]_vars

\* C5's case: Ok replaced one static endpoint by two others and set the
\* unicast endpoint typed between blanks
C5_Witness ==
    /\ lastOp.op = "ShowNetworkEndpointsDialog._OnOk"
    /\ unicastEndpoint = <<"a">>
    /\ Len(issued) = 3
    /\ issued[1] = EndpointCmd(<<"unicastEndpoint">>, << <<"a">> >>)
    /\ issued[2].args = <<"staticEndpoints", "removeEndpoint">>
    /\ issued[3].args = <<"staticEndpoints", "addEndpoint">>
    /\ Len(issued[3].endpoints) = 2

====
